---- MODULE Spec2Model ----
(***************************************************************************)
(* foodtp-server: the recipe feasibility matching engine.                  *)
(*                                                                         *)
(* The source tree holds three revisions of the server:                    *)
(*   "v1"  src/main.go:1-528        flat Product, catalog scaled in place, *)
(*                                  incomparable units skipped             *)
(*   "v2"  src/unnamed/part_002     flat Product, density table, servings  *)
(*                                  applied at the point of use            *)
(*   "v3"  src/main.go:529-1218     Product embeds *Measurement, density   *)
(*                                  table, servings at the point of use    *)
(* The variable build says which revision runs; it never changes.          *)
(*                                                                         *)
(* Quantities are float64 in the source.  The model uses integers; every   *)
(* division that the data below can reach is exact (see Quot).             *)
(* Go maps are functions; "k in the map" is k \in DOMAIN m.                *)
(***************************************************************************)
EXTENDS Integers, Sequences, FiniteSets, TLC

VARIABLES
    build,              \* revision of the server that runs
    fixture,            \* the data files the process was started with
    phase,              \* "loading" | "serving" | "exited" (log.Fatal: os.Exit(1))
    recipes,            \* RecipeTable: recipe name -> ingredient name -> Product
    recipesAtLoad,      \* history: recipes as they were when loading finished
    recipeNamePowerSet, \* set of subsets of the recipe names (v2, v3: built once)
    productDensityMap,  \* ProductDensityMap: product -> Density, filled at load
    handler,            \* handler id -> the locals of one /recipes handler call
    requestCount,       \* number of /recipes requests received so far
    scaledRequestDone   \* history: a request with numberOfServings > 1 was answered

vars == <<build, fixture, phase, recipes, recipesAtLoad, recipeNamePowerSet,
          productDensityMap, handler, requestCount, scaledRequestDone>>

(***************************************************************************)
(* Bounds of the model.                                                    *)
(***************************************************************************)
MaxServings == 2
MaxRequests == 2

Builds == {"v1", "v2", "v3"}
Handlers == {"h1"}

(***************************************************************************)
(* Program constants and types.                                            *)
(***************************************************************************)
\* main.go:606 `const toTasteUnitName = "to taste"`; v1 (main.go:339) and v2
\* (part_002:385) compare with the Cyrillic literal, transliterated here.
toTasteUnitName == "to taste"
toTasteUnitNameCyrillic == "na vkus"

\* The messages of the two log.Fatal calls a /recipes request can reach:
\* the error of json.Unmarshal (main.go:1163-1166) and main.go:1188.
unmarshalError == "invalid character"
recipeNotFound == "recipe not found"

ToTasteMarker(b) == IF b = "v3" THEN toTasteUnitName ELSE toTasteUnitNameCyrillic

\* Product{Name, *Measurement} (v3) / Product{Name, Quantity, MeasurementUnit}
MkMeasurement(q, u) == [Quantity |-> q, Unit |-> u]
MkProduct(n, q, u) == [Name |-> n, Measurement |-> MkMeasurement(q, u)]

\* Density{Quantity, MassUnit, VolumeUnit}
MkDensity(q, mu, vu) == [Quantity |-> q, MassUnit |-> mu, VolumeUnit |-> vu]

EmptyMap == << >>

\* v3 copies a Product by `productCopy := *product`: the embedded *Measurement
\* is copied as a pointer, so the copy and the original share one Measurement.
\* v1 and v2 hold quantity and unit inline, so the copy owns them.
SharesMeasurement(b) == b = "v3"

\* All orders in which the keys of a Go map (or the elements of a set) can be
\* produced by one `range` loop.
Perms(S) ==
    {s \in [1..Cardinality(S) -> S] : \A i, j \in 1..Cardinality(S) : i # j => s[i] # s[j]}

\* float64 values are integers in the model, and one value more: NaN, a number
\* below every quantity the data reach.  The operators treat it as IEEE 754
\* does: arithmetic on NaN gives NaN, 0/0 is NaN, every comparison with NaN is
\* false.  No divisor other than in 0/0 is zero in the data below.
NaN == 0 - 2000000000
IsNaN(x) == x = NaN
Plus(a, b) == IF IsNaN(a) \/ IsNaN(b) THEN NaN ELSE a + b
Minus(a, b) == IF IsNaN(a) \/ IsNaN(b) THEN NaN ELSE a - b
Times(a, b) == IF IsNaN(a) \/ IsNaN(b) THEN NaN ELSE a * b
Less(a, b) == ~IsNaN(a) /\ ~IsNaN(b) /\ a < b

\* float64 division; exact on every value the data below reaches.
Quot(a, b) == IF IsNaN(a) \/ IsNaN(b) \/ (a = 0 /\ b = 0) THEN NaN ELSE a \div b

\* m[k] = v on a Go map
Put(m, k, v) == [x \in DOMAIN m \cup {k} |-> IF x = k THEN v ELSE m[x]]

(***************************************************************************)
(* Conversion context: Product.ConvertUnit                                 *)
(***************************************************************************)
MkContext(table, base, aliasTable, baseAlias, productAlias) ==
    [UnitConversionTable |-> table, BaseUnitConversionMap |-> base,
     AliasTable |-> aliasTable, BaseAliasMap |-> baseAlias,
     productAliasMap |-> productAlias]

\* main.go:862-871  unit alias resolution
ResolveUnitAlias(p, ctx) ==
    LET unit == p.Measurement.Unit IN
    IF unit \in DOMAIN ctx.AliasTable
    THEN LET unitAliasDefinition == ctx.AliasTable[unit] IN
         IF p.Name \in DOMAIN unitAliasDefinition
         THEN unitAliasDefinition[p.Name]
         ELSE IF unit \in DOMAIN ctx.BaseAliasMap
              THEN ctx.BaseAliasMap[unit]
              ELSE unit
    ELSE unit

\* main.go:872-875  product alias resolution
ResolveProductAlias(p, ctx) ==
    IF p.Name \in DOMAIN ctx.productAliasMap
    THEN ctx.productAliasMap[p.Name]
    ELSE p.Name

\* A lookup that forgets the base conversion map.
LookupConversionDropsBase(name, unit, ctx) ==
    IF unit \in DOMAIN ctx.UnitConversionTable
    THEN IF name \in DOMAIN ctx.UnitConversionTable[unit]
         THEN {ctx.UnitConversionTable[unit][name]}
         ELSE {}
    ELSE {}

\* A lookup in maps of Measurement values: a missing key yields the zero value.
LookupConversionZeroValue(name, unit, ctx) ==
    IF unit \in DOMAIN ctx.UnitConversionTable
    THEN IF name \in DOMAIN ctx.UnitConversionTable[unit]
         THEN {ctx.UnitConversionTable[unit][name]}
         ELSE {MkMeasurement(0, "")}
    ELSE IF unit \in DOMAIN ctx.BaseUnitConversionMap
         THEN {ctx.BaseUnitConversionMap[unit]}
         ELSE {MkMeasurement(0, "")}

\* main.go:876-882  the set holding the conversion that applies (empty: nil)
LookupConversion(name, unit, ctx) ==
    IF unit \in DOMAIN ctx.UnitConversionTable
    THEN IF name \in DOMAIN ctx.UnitConversionTable[unit]
         THEN {ctx.UnitConversionTable[unit][name]}
         ELSE {}
    ELSE IF unit \in DOMAIN ctx.BaseUnitConversionMap
         THEN {ctx.BaseUnitConversionMap[unit]}
         ELSE {}

\* A conversion that looks the product up under the name the caller gave.
ConvertUnitLooksUpCallerName(p, ctx) ==
    LET unit == ResolveUnitAlias(p, ctx)
        name == ResolveProductAlias(p, ctx)
        found == LookupConversion(p.Name, unit, ctx)
    IN  IF found # {}
        THEN LET productUnitMeasurement == CHOOSE m \in found : TRUE IN
             MkProduct(name, p.Measurement.Quantity * productUnitMeasurement.Quantity,
                       productUnitMeasurement.Unit)
        ELSE MkProduct(name, p.Measurement.Quantity, unit)

\* A conversion that writes through a zero Measurement when none is found.
ConvertUnitClearsUnconvertible(p, ctx) ==
    LET unit == ResolveUnitAlias(p, ctx)
        name == ResolveProductAlias(p, ctx)
        found == LookupConversion(name, unit, ctx)
    IN  IF found # {}
        THEN LET productUnitMeasurement == CHOOSE m \in found : TRUE IN
             MkProduct(name, p.Measurement.Quantity * productUnitMeasurement.Quantity,
                       productUnitMeasurement.Unit)
        ELSE MkProduct(name, 0, "")

\* main.go:861-887 (v1: main.go:232-258, v2: part_002:291-317, same text)
ConvertUnit(p, ctx) ==
    LET unit == ResolveUnitAlias(p, ctx)
        name == ResolveProductAlias(p, ctx)
        found == LookupConversion(name, unit, ctx)
    IN  IF found # {}
        THEN LET productUnitMeasurement == CHOOSE m \in found : TRUE IN
             MkProduct(name, p.Measurement.Quantity * productUnitMeasurement.Quantity,
                       productUnitMeasurement.Unit)
        ELSE MkProduct(name, p.Measurement.Quantity, unit)

\* main.go:1099-1107 and main.go:1168-1175: `for key, product := range m`,
\* converting each product in place and re-inserting it under its canonical
\* name.  todo is the set of keys the loop may still produce: an entry that is
\* deleted is not produced, an entry created during the loop may be produced
\* or skipped (Go specification, "For statements with range clause").
\* The result is the set of maps the loop can leave behind.
\* A re-insertion that adds the quantity to the one of the entry it meets.
ReinsertAddsQuantities(m, k, p) ==
    [n \in (DOMAIN m \ {k}) \cup {p.Name} |->
        IF n # p.Name THEN m[n]
        ELSE IF p.Name \in DOMAIN m \ {k}
             THEN [p EXCEPT !.Measurement.Quantity = @ + m[n].Measurement.Quantity]
             ELSE p]

\* main.go:1172-1173 (load: main.go:1103-1104): the entry of key k, renamed to
\* p.Name, is assigned under its new name and the old key is deleted.
Reinsert(m, k, p) ==
    [n \in (DOMAIN m \ {k}) \cup {p.Name} |-> IF n = p.Name THEN p ELSE m[n]]

RECURSIVE NormalizeFrom(_, _, _)
NormalizeFrom(m, todo, ctx) ==
    LET live == todo \cap DOMAIN m IN
    IF live = {} THEN {m}
    ELSE UNION {
        LET p == ConvertUnit([m[k] EXCEPT !.Name = k], ctx)
            rest == todo \ {k}
        IN  IF p.Name = k
            THEN NormalizeFrom([m EXCEPT ![k] = p], rest, ctx)
            ELSE LET moved == Reinsert(m, k, p)
                 IN  IF p.Name \in DOMAIN m
                     THEN NormalizeFrom(moved, rest, ctx)
                     ELSE NormalizeFrom(moved, rest, ctx)
                          \cup NormalizeFrom(moved, rest \cup {p.Name}, ctx)
        : k \in live }

NormalizeProductMap(m, ctx) == NormalizeFrom(m, DOMAIN m, ctx)

\* main.go:1099-1107: every recipe of the catalog is normalized
NormalizeCatalog(raw, ctx) ==
    {t \in [DOMAIN raw -> UNION {NormalizeProductMap(raw[r], ctx) : r \in DOMAIN raw}] :
        \A r \in DOMAIN raw : t[r] \in NormalizeProductMap(raw[r], ctx)}

(***************************************************************************)
(* The conversion CSV: UnitConversionContext.ImportFromCSVFile             *)
(*                                                                         *)
(* The first record holds the unit descriptions `unit (quantity baseUnit)`, *)
(* every other record a product and, per unit column, `quantity unit` or   *)
(* "-".                                                                    *)
(***************************************************************************)
MkUnitDescription(unit, quantity, baseUnit) ==
    [valid |-> TRUE, unit |-> unit, quantity |-> quantity, baseUnit |-> baseUnit]

\* A description unitDescriptionPattern (main.go:608) does not match.
InvalidUnitDescription == [valid |-> FALSE, unit |-> "", quantity |-> 0, baseUnit |-> ""]

Cell(quantity, unit) == [present |-> TRUE, Quantity |-> quantity, Unit |-> unit]

\* main.go:605 `const fieldNotApplicableStr = "-"`
NotApplicable == [present |-> FALSE, Quantity |-> 0, Unit |-> ""]

MkRow(product, cells) == [product |-> product, cells |-> cells]
MkCSV(header, rows) == [given |-> TRUE, header |-> header, rows |-> rows]

\* main.go:1065-1067: without a conversion CSV file name nothing is imported.
NoCSV == [given |-> FALSE, header |-> << >>, rows |-> << >>]

\* main.go:652-679: the header loop; it stops at the first description the
\* pattern rejects (main.go:654-657).
RECURSIVE ImportHeader(_, _, _)
ImportHeader(header, i, base) ==
    IF i > Len(header) THEN [ok |-> TRUE, base |-> base]
    ELSE IF ~header[i].valid THEN [ok |-> FALSE, base |-> base]
    ELSE ImportHeader(header, i + 1,
                      Put(base, header[i].unit,
                          MkMeasurement(header[i].quantity, header[i].baseUnit)))

\* A density that starts out in gram per cup.
InitialDensityGramPerCup == MkDensity(0, "g", "cup")

\* main.go:696 `productDensity := &Density{}`
InitialDensity == MkDensity(0, "", "")

\* A density that is the sum of its samples.
DensityMeanKeepsSum(sum, count) == sum

\* main.go:737 `productDensity.Quantity /= float64(productDensityMeasurementCount)`
DensityMean(sum, count) == Quot(sum, count)

\* main.go:696-737: the cells of one product record from column i on, with the
\* density d and the number of samples accumulated so far.
RECURSIVE DensityFrom(_, _, _, _, _, _)
DensityFrom(cells, units, base, i, d, count) ==
    IF i > Len(cells) THEN [d EXCEPT !.Quantity = DensityMean(d.Quantity, count)]
    ELSE IF ~cells[i].present THEN DensityFrom(cells, units, base, i + 1, d, count)
    ELSE
        LET withMass == IF d.MassUnit = "" THEN [d EXCEPT !.MassUnit = cells[i].Unit]
                        ELSE d
            withBoth == IF withMass.VolumeUnit = ""
                        THEN [withMass EXCEPT !.VolumeUnit = units[i]]
                        ELSE withMass
        IN  IF /\ withBoth.MassUnit = cells[i].Unit
               /\ withBoth.VolumeUnit = units[i]
               /\ units[i] \in DOMAIN base
            THEN DensityFrom(cells, units, base, i + 1,
                             [withBoth EXCEPT !.Quantity =
                                 Plus(@, Quot(cells[i].Quantity, base[units[i]].Quantity))],
                             count + 1)
            ELSE DensityFrom(cells, units, base, i + 1, withBoth, count)

\* main.go:708-714: unitDefinition[product] = productDensityMeasurement
RECURSIVE TableFrom(_, _, _, _, _)
TableFrom(table, product, cells, units, i) ==
    IF i > Len(cells) THEN table
    ELSE IF ~cells[i].present THEN TableFrom(table, product, cells, units, i + 1)
    ELSE LET unitDefinition == IF units[i] \in DOMAIN table THEN table[units[i]]
                               ELSE EmptyMap
         IN  TableFrom(Put(table, units[i],
                           Put(unitDefinition, product,
                               MkMeasurement(cells[i].Quantity, cells[i].Unit))),
                       product, cells, units, i + 1)

\* main.go:681-740: the product records, one after the other
RECURSIVE ImportRows(_, _, _, _, _, _)
ImportRows(rows, j, units, base, table, density) ==
    IF j > Len(rows)
    THEN [BaseUnitConversionMap |-> base, UnitConversionTable |-> table,
          productDensityMap |-> density]
    ELSE ImportRows(rows, j + 1, units, base,
                    TableFrom(table, rows[j].product, rows[j].cells, units, 1),
                    Put(density, rows[j].product,
                        DensityFrom(rows[j].cells, units, base, 1, InitialDensity, 0)))

\* main.go:633-740
ImportFromCSVFile(csv) ==
    IF ~csv.given
    THEN [BaseUnitConversionMap |-> EmptyMap, UnitConversionTable |-> EmptyMap,
          productDensityMap |-> EmptyMap]
    ELSE LET h == ImportHeader(csv.header, 1, EmptyMap) IN
         IF ~h.ok
         THEN [BaseUnitConversionMap |-> h.base, UnitConversionTable |-> EmptyMap,
               productDensityMap |-> EmptyMap]
         ELSE ImportRows(csv.rows, 1, [i \in 1..Len(csv.header) |-> csv.header[i].unit],
                         h.base, EmptyMap, EmptyMap)

\* main.go:604 `const iniDefaultSectionName = "DEFAULT"`
iniDefaultSectionName == "DEFAULT"

\* main.go:751-787: the conversion INI read after the CSV.  Its DEFAULT
\* section adds base conversions; every section, DEFAULT among them, becomes
\* the whole table section of its name (main.go:785).
ConversionContextFromFiles(csv, iniGiven, iniBase, iniSections) ==
    LET imported == ImportFromCSVFile(csv)
        sections == iniSections @@ (iniDefaultSectionName :> iniBase)
    IN  IF ~iniGiven
        THEN MkContext(imported.UnitConversionTable, imported.BaseUnitConversionMap,
                       EmptyMap, EmptyMap, EmptyMap)
        ELSE MkContext(sections @@ imported.UnitConversionTable,
                       iniBase @@ imported.BaseUnitConversionMap,
                       EmptyMap, EmptyMap, EmptyMap)

(***************************************************************************)
(* Data files.  A fixture is one coherent set of files the process can be  *)
(* started with: the conversion and alias context and the density map as   *)
(* the importers leave them, the recipe table as ImportFromCSVFile leaves  *)
(* it (before normalization), the recipe source map, whether the header of  *)
(* the conversion CSV held a unit description the pattern rejects, and the  *)
(* request payloads clients send.                                          *)
(***************************************************************************)
EmptyContext == MkContext(EmptyMap, EmptyMap, EmptyMap, EmptyMap, EmptyMap)

\* Scenario A of the specification: two recipes sharing flour and sugar.
RecipesA ==
    ("cake" :> ("flour" :> MkProduct("flour", 300, "g")
                @@ "sugar" :> MkProduct("sugar", 200, "g")))
    @@ ("cookies" :> ("flour" :> MkProduct("flour", 200, "g")
                      @@ "sugar" :> MkProduct("sugar", 100, "g")))

PayloadsA ==
    {("flour" :> MkMeasurement(qf, "g")) @@ ("sugar" :> MkMeasurement(qs, "g")) :
        qf \in {300, 500}, qs \in {200, 300}}
    \cup {"flour" :> MkMeasurement(500, "g")}

FixtureA ==
    [name |-> "A", ctx |-> EmptyContext, conversionCSV |-> NoCSV,
     rawRecipes |-> RecipesA, payloads |-> PayloadsA,
     sources |-> ("cake" :> "cakes.example/1") @@ ("cookies" :> "cookies.example/2"),
     invalidUnitDescription |-> FALSE]

\* Scenario B: a base conversion cup -> 240 g, no conversion-table section for
\* cup, and a product alias.
ContextB ==
    MkContext(EmptyMap, "cup" :> MkMeasurement(240, "g"), EmptyMap, EmptyMap,
              "unsalted butter" :> "butter")

RecipesB == "toast" :> ("butter" :> MkProduct("butter", 200, "g"))

PayloadsB ==
    {"butter" :> MkMeasurement(1, "cup"),
     "butter" :> MkMeasurement(100, "g"),
     "unsalted butter" :> MkMeasurement(1, "cup"),
     EmptyMap}

FixtureB ==
    [name |-> "B", ctx |-> ContextB, conversionCSV |-> NoCSV,
     rawRecipes |-> RecipesB, payloads |-> PayloadsB,
     sources |-> "toast" :> "toast.example/3",
     invalidUnitDescription |-> FALSE]

\* Scenario K: two aliases of butter.  The pastry recipe lists butter under two
\* names, and so do the requests.
ContextK ==
    MkContext(EmptyMap, "cup" :> MkMeasurement(240, "g"), EmptyMap, EmptyMap,
              ("unsalted butter" :> "butter") @@ ("salted butter" :> "butter"))

RecipesK ==
    "pastry" :> (("butter" :> MkProduct("butter", 100, "g"))
                 @@ ("unsalted butter" :> MkProduct("unsalted butter", 1, "cup")))

PayloadsK ==
    {("butter" :> MkMeasurement(1, "cup")) @@ ("unsalted butter" :> MkMeasurement(2, "cup")),
     ("salted butter" :> MkMeasurement(1, "cup"))
     @@ ("unsalted butter" :> MkMeasurement(2, "cup"))}

FixtureK ==
    [name |-> "K", ctx |-> ContextK, conversionCSV |-> NoCSV,
     rawRecipes |-> RecipesK, payloads |-> PayloadsK,
     sources |-> "pastry" :> "pastry.example/9",
     invalidUnitDescription |-> FALSE]

\* Scenario C: milk has a density entry {240, g, cup}.  The conversion table
\* has a section for cup without an entry for milk (an INI section replaces
\* the CSV column, main.go:785), so milk measured in cups stays in cups.
ConversionCSVC ==
    MkCSV(<<MkUnitDescription("cup", 1, "c")>>,
          <<MkRow("milk", <<Cell(240, "g")>>)>>)

ContextC ==
    ConversionContextFromFiles(ConversionCSVC, TRUE, EmptyMap,
                               "cup" :> ("cream" :> MkMeasurement(250, "g")))

DensityC == "milk" :> MkDensity(240, "g", "cup")

\* Scenario D: a conversion CSV with the columns cup, spoon and cup again.
\* milk has two samples in gram per cup, honey one in gram per spoon and a
\* cup entry that is no sample, syrup a first entry in ml and a second in gram,
\* oil no entry at all.
ConversionCSVD ==
    MkCSV(<<MkUnitDescription("cup", 2, "dl"), MkUnitDescription("spoon", 1, "sp"),
            MkUnitDescription("cup", 2, "dl")>>,
          <<MkRow("milk", <<Cell(480, "g"), NotApplicable, Cell(520, "g")>>),
            MkRow("honey", <<NotApplicable, Cell(20, "g"), Cell(700, "g")>>),
            MkRow("syrup", <<Cell(300, "ml"), NotApplicable, Cell(640, "g")>>),
            MkRow("oil", <<NotApplicable, NotApplicable, NotApplicable>>)>>)

RecipesD ==
    ("dressing" :> ("oil" :> MkProduct("oil", 1, "cup")))
    @@ ("glaze" :> ("honey" :> MkProduct("honey", 40, "g")))

PayloadsD ==
    {"oil" :> MkMeasurement(500, "g"),
     "oil" :> MkMeasurement(2, "cup"),
     ("oil" :> MkMeasurement(500, "g")) @@ ("honey" :> MkMeasurement(3, "spoon")),
     "honey" :> MkMeasurement(60, "g")}

FixtureD ==
    [name |-> "D", ctx |-> ConversionContextFromFiles(ConversionCSVD, FALSE, EmptyMap, EmptyMap),
     conversionCSV |-> ConversionCSVD,
     rawRecipes |-> RecipesD, payloads |-> PayloadsD,
     sources |-> ("dressing" :> "dressing.example/7") @@ ("glaze" :> "glaze.example/8"),
     invalidUnitDescription |-> FALSE]

RecipesC ==
    ("latte" :> ("milk" :> MkProduct("milk", 1, "cup")))
    @@ ("porridge" :> ("milk" :> MkProduct("milk", 480, "g")))

PayloadsC ==
    {"milk" :> MkMeasurement(500, "ml"),
     "milk" :> MkMeasurement(2, "cup"),
     "milk" :> MkMeasurement(3, "cup"),
     "milk" :> MkMeasurement(720, "g")}

FixtureC ==
    [name |-> "C", ctx |-> ContextC, conversionCSV |-> ConversionCSVC,
     rawRecipes |-> RecipesC, payloads |-> PayloadsC,
     sources |-> ("latte" :> "latte.example/4") @@ ("porridge" :> "porridge.example/5"),
     invalidUnitDescription |-> FALSE]

\* Recipes with ingredients "to taste".  The quantity column of such an
\* ingredient is q; the two fixtures differ in nothing else.
RecipesT(q) ==
    ("soup" :> ("salt" :> MkProduct("salt", q, toTasteUnitName)
                @@ "flour" :> MkProduct("flour", 200, "g")))
    @@ ("stew" :> ("pepper" :> MkProduct("pepper", q, toTasteUnitNameCyrillic)
                   @@ "flour" :> MkProduct("flour", 300, "g")))

PayloadsT ==
    {("flour" :> MkMeasurement(500, "g")) @@ ("salt" :> MkMeasurement(0, "g"))
        @@ ("pepper" :> MkMeasurement(0, "g")),
     ("flour" :> MkMeasurement(400, "g")) @@ ("salt" :> MkMeasurement(1, "pinch"))
        @@ ("pepper" :> MkMeasurement(1, "pinch")),
     ("flour" :> MkMeasurement(500, "g")) @@ ("salt" :> MkMeasurement(3, toTasteUnitName))
        @@ ("pepper" :> MkMeasurement(3, toTasteUnitNameCyrillic)),
     ("flour" :> MkMeasurement(500, "g")) @@ ("salt" :> MkMeasurement(0, "g")),
     ("flour" :> MkMeasurement(500, "g"))
        @@ ("pepper" :> MkMeasurement(7, toTasteUnitNameCyrillic))}

FixtureT(q) ==
    [name |-> "T", ctx |-> EmptyContext, conversionCSV |-> NoCSV,
     rawRecipes |-> RecipesT(q), payloads |-> PayloadsT,
     sources |-> ("soup" :> "soup.example/6") @@ ("stew" :> "stew.example/7"),
     invalidUnitDescription |-> FALSE]

ToTasteQuantities == {0, 7}

\* Contexts for the normalization of single products: every combination of a
\* product alias, a product-specific and a base unit alias, a product-specific
\* and a base conversion, with conversions whose target unit is itself
\* convertible (cup -> spoon -> g).
NormProductAliasMaps == {EmptyMap, "plain flour" :> "flour"}
NormAliasTables == {EmptyMap, "tbsp" :> ("flour" :> "spoon"), "tbsp" :> EmptyMap}
NormBaseAliasMaps == {EmptyMap, "tbsp" :> "spoon"}
NormConversionTables ==
    {EmptyMap,
     "cup" :> ("flour" :> MkMeasurement(120, "g")),
     "cup" :> ("plain flour" :> MkMeasurement(100, "g")),
     "spoon" :> ("flour" :> MkMeasurement(8, "g"))}
NormBaseConversionMaps ==
    {EmptyMap,
     "cup" :> MkMeasurement(240, "g"),
     ("cup" :> MkMeasurement(16, "spoon")) @@ ("spoon" :> MkMeasurement(15, "g"))}

\* main.go:795-812: the keys of the DEFAULT section are the base alias map,
\* and every section of the file, DEFAULT included, is a section of the table.
AliasTableFromINI(sections, baseAlias) == sections @@ (iniDefaultSectionName :> baseAlias)

NormContexts ==
    {MkContext(table, base, AliasTableFromINI(aliasTable, baseAlias), baseAlias,
               productAlias) :
        table \in NormConversionTables, base \in NormBaseConversionMaps,
        aliasTable \in NormAliasTables, baseAlias \in NormBaseAliasMaps,
        productAlias \in NormProductAliasMaps}

NormPayloads ==
    {name :> MkMeasurement(2, unit) :
        name \in {"plain flour", "flour"}, unit \in {"tbsp", "spoon", "cup", "g"}}

RecipesN == "dough" :> ("plain flour" :> MkProduct("plain flour", 1, "cup"))

FixtureN(ctx) ==
    [name |-> "N", ctx |-> ctx, conversionCSV |-> NoCSV,
     rawRecipes |-> RecipesN, payloads |-> NormPayloads,
     sources |-> "dough" :> "dough.example/8",
     invalidUnitDescription |-> FALSE]

\* The recipe source file lists cake only: cookies has ingredients and no
\* source (the two files are read independently, main.go:1089-1097).
FixtureS ==
    [name |-> "S", ctx |-> EmptyContext, conversionCSV |-> NoCSV,
     rawRecipes |-> RecipesA,
     payloads |-> {("flour" :> MkMeasurement(300, "g")) @@ ("sugar" :> MkMeasurement(200, "g")),
                   ("flour" :> MkMeasurement(200, "g")) @@ ("sugar" :> MkMeasurement(100, "g"))},
     sources |-> "cake" :> "cakes.example/1",
     invalidUnitDescription |-> FALSE]

ConversionCSVH ==
    MkCSV(<<MkUnitDescription("cup", 240, "g"), InvalidUnitDescription>>,
          <<MkRow("butter", <<Cell(240, "g"), NotApplicable>>)>>)

\* The header of the conversion CSV is `cup (240 g)` followed by a description
\* the pattern does not match: ImportFromCSVFile has recorded the base
\* conversion of cup and returned (main.go:652-657); no product row was read.
FixtureH ==
    [name |-> "H",
     ctx |-> ConversionContextFromFiles(ConversionCSVH, FALSE, EmptyMap, EmptyMap),
     conversionCSV |-> ConversionCSVH,
     rawRecipes |-> RecipesB,
     payloads |-> {"butter" :> MkMeasurement(1, "cup")},
     sources |-> "toast" :> "toast.example/3",
     invalidUnitDescription |-> TRUE]

Fixtures ==
    {FixtureA, FixtureB, FixtureC, FixtureD, FixtureK, FixtureS, FixtureH}
    \cup {FixtureT(q) : q \in ToTasteQuantities}

\* numberOfServings of a request: absent (0), negative, or 1..MaxServings
ServingsChoices == {0 - 1} \cup (0..MaxServings)

(***************************************************************************)
(* Feasibility search: GetMatchingRecipeNameSets                           *)
(***************************************************************************)
RECURSIVE Concat(_)
Concat(ss) == IF ss = << >> THEN << >> ELSE Head(ss) \o Concat(Tail(ss))

\* main.go:953-956: the orders in which the two nested `range` loops can
\* produce the ingredients of the recipes of subset S, as sequences of
\* <<recipe name, ingredient key>>.
IngredientOrders(S, t) ==
    LET keyOrders == UNION {Perms(DOMAIN t[r]) : r \in S}
        choices == {io \in [S -> keyOrders] : \A r \in S : io[r] \in Perms(DOMAIN t[r])}
    IN  {Concat([i \in 1..Cardinality(S) |->
                    [j \in 1..Len(io[ro[i]]) |-> <<ro[i], io[ro[i]][j]>>]]) :
            ro \in Perms(S), io \in choices}

\* main.go:949 `productCopy := *product` (v1: main.go:326, v2: part_002:372).
\* In v3 the copy holds the pointer to the Measurement of availableProducts[k].
ProductCopy(b, k, product) ==
    IF SharesMeasurement(b)
    THEN [Name |-> product.Name, Measurement |-> [ref |-> k]]
    ELSE product

\* main.go:947-951
CloneProducts(b, availableProducts) ==
    [k \in DOMAIN availableProducts |-> ProductCopy(b, k, availableProducts[k])]

\* remainingProduct.Measurement, through the pointer when it is one.
\* st = [avail, rem, live, ok]: the caller's availableProducts, the local
\* remainingProducts, whether the closure is still running, its verdict.
RemainingMeasurement(st, k) ==
    LET m == st.rem[k].Measurement IN
    IF "ref" \in DOMAIN m THEN st.avail[m.ref].Measurement ELSE m

\* main.go:959, 981, 988 `return` out of the closure: the subset is not recorded
Abort(st) == [st EXCEPT !.live = FALSE, !.ok = FALSE]

\* main.go:985-989
Subtract(st, k, convertedIngredientQuantity) ==
    LET m == st.rem[k].Measurement
        q == Minus(RemainingMeasurement(st, k).Quantity, convertedIngredientQuantity)
        written == IF "ref" \in DOMAIN m
                   THEN [st EXCEPT !.avail[m.ref].Measurement.Quantity = q]
                   ELSE [st EXCEPT !.rem[k].Measurement.Quantity = q]
    IN  IF Less(q, 0)
        THEN Abort([written EXCEPT !.rem = [n \in DOMAIN st.rem \ {st.rem[k].Name} |-> written.rem[n]]])
        ELSE written

\* A lookup that lets an ingredient to taste pass without a stock entry.
InStockUnlessToTaste(b, st, ingredient) ==
    \/ ingredient.Measurement.Unit = ToTasteMarker(b)
    \/ ingredient.Name \in DOMAIN st.rem

\* main.go:957-960 (v1: main.go:334-337, v2: part_002:380-383):
\* `remainingProduct, ok := remainingProducts[ingredient.Name]`
InStock(b, st, ingredient) == ingredient.Name \in DOMAIN st.rem

\* A skip that forgets to test the to-taste marker.
IsToTasteNever(b, ingredient) == FALSE

\* main.go:962 (v1: main.go:339, v2: part_002:385)
IsToTaste(b, ingredient) == ingredient.Measurement.Unit = ToTasteMarker(b)

\* A search that skips an ingredient whose unit it cannot compare, in every
\* revision.
SkipsIncomparableUnitsAlways(b) == TRUE

\* main.go:345-348: v1 logs the mismatch and goes on with the next ingredient
\* (`continue`); v2 (part_002:403-406) and v3 (main.go:980-983) `return`.
SkipsIncomparableUnits(b) == b = "v1"

\* main.go:966 (v2: part_002:389); v1 subtracts ingredient.Quantity (main.go:344)
ConvertedIngredientQuantity(b, ingredient, numberOfServings) ==
    IF b = "v1"
    THEN ingredient.Measurement.Quantity
    ELSE ingredient.Measurement.Quantity * numberOfServings

\* main.go:971-972 `convertedIngredientQuantity *= productDensity.Quantity`
VolumeToMass(quantity, productDensity) == Times(quantity, productDensity.Quantity)

\* A conversion from mass to volume that multiplies as well.
MassToVolumeMultiplies(quantity, productDensity) == Times(quantity, productDensity.Quantity)

\* main.go:973-974 `convertedIngredientQuantity /= productDensity.Quantity`
MassToVolume(quantity, productDensity) == Quot(quantity, productDensity.Quantity)

\* main.go:956-989, one pass of the body of `for _, ingredient := range recipe`
\* (v1: main.go:333-354, v2: part_002:379-413)
IngredientStep(b, st, ingredient, densityMap, numberOfServings) ==
    IF ~st.live THEN st
    ELSE IF ~InStock(b, st, ingredient) THEN Abort(st)
    ELSE IF IsToTaste(b, ingredient) THEN st
    ELSE
        LET k == ingredient.Name
            remUnit == RemainingMeasurement(st, k).Unit
            ingUnit == ingredient.Measurement.Unit
            quantity == ConvertedIngredientQuantity(b, ingredient, numberOfServings)
        IN  IF remUnit = ingUnit THEN Subtract(st, k, quantity)
            ELSE IF SkipsIncomparableUnits(b) THEN st
            ELSE IF k \notin DOMAIN densityMap THEN Abort(st)
            ELSE LET productDensity == densityMap[k] IN
                 IF ingUnit = productDensity.VolumeUnit /\ remUnit = productDensity.MassUnit
                 THEN Subtract(st, k, VolumeToMass(quantity, productDensity))
                 ELSE IF ingUnit = productDensity.MassUnit
                         /\ remUnit = productDensity.VolumeUnit
                 THEN Subtract(st, k, MassToVolume(quantity, productDensity))
                 ELSE Abort(st)

RECURSIVE EvalFrom(_, _, _, _, _, _, _)
EvalFrom(b, st, t, ord, i, densityMap, numberOfServings) ==
    IF i > Len(ord) THEN st
    ELSE EvalFrom(b,
                  IngredientStep(b, st, t[ord[i][1]][ord[i][2]], densityMap,
                                 numberOfServings),
                  t, ord, i + 1, densityMap, numberOfServings)

\* main.go:946-996, the closure run for one element of the power set, with the
\* ingredients produced in order ord.  Result: [avail, rem, live, ok].
EvaluateRecipeNameSubset(b, t, availableProducts, ord, densityMap, numberOfServings) ==
    EvalFrom(b,
             [avail |-> availableProducts, rem |-> CloneProducts(b, availableProducts),
              live |-> TRUE, ok |-> TRUE],
             t, ord, 1, densityMap, numberOfServings)

\* A closure that records every subset it did not return out of.
RecordsSubsetEvenEmpty(ok, recipeNameSubset) == ok

\* main.go:993-995 (v1: main.go:357-359, v2: part_002:416-418): the end of the
\* closure is reached and `recipeNameSubset.Cardinality() > 0`.
RecordsSubset(ok, recipeNameSubset) == ok /\ Cardinality(recipeNameSubset) > 0

\* golang-set IsSubset
IsSubset(A, B) == A \subseteq B

\* A reduction that keeps every matching set.
MaximalOnlyKeepsAll(matching) == matching

\* main.go:999-1016 (v1: main.go:363-375, v2: part_002:422-434).  The source
\* copies each kept set into a slice whose order is the set's iteration order;
\* the model keeps the set.
MaximalOnly(matching) ==
    SelectSeq(matching,
              LAMBDA lhs : ~\E j \in 1..Len(matching) :
                                matching[j] # lhs /\ IsSubset(lhs, matching[j]))

\* main.go:306-312 scaleRecipesByNumberOfServings: every quantity is doubled,
\* whatever numberOfServings is.
ScaleRecipesByNumberOfServings(t, numberOfServings) ==
    [r \in DOMAIN t |-> [k \in DOMAIN t[r] |->
        [t[r][k] EXCEPT !.Measurement.Quantity = @ * 2]]]

\* A handler that scales the shared catalog by the request's numberOfServings
\* in every revision.
CatalogForSearchScalesByServings(b, t, numberOfServings) ==
    IF numberOfServings > 1
    THEN [r \in DOMAIN t |-> [k \in DOMAIN t[r] |->
            [t[r][k] EXCEPT !.Measurement.Quantity = @ * numberOfServings]]]
    ELSE t

\* A handler that scales the shared catalog in every revision.
CatalogForSearchScalesInPlace(b, t, numberOfServings) ==
    IF numberOfServings > 1
    THEN ScaleRecipesByNumberOfServings(t, numberOfServings)
    ELSE t

\* What a request does to the shared catalog before the search: v1 scales it
\* (main.go:487-489); v2 and v3 leave it alone (main.go:1168-1177).
CatalogForSearch(b, t, numberOfServings) ==
    IF b = "v1" /\ numberOfServings > 1
    THEN ScaleRecipesByNumberOfServings(t, numberOfServings)
    ELSE t

(***************************************************************************)
(* The server.                                                             *)
(***************************************************************************)
\* main.go:1109-1114 (v2: part_002:539-544): recipeNameSet.PowerSet(), built
\* once after the catalog is normalized.  v1 builds none at startup.
PowerSetAtLoad(b, t) == IF b = "v1" THEN {} ELSE SUBSET (DOMAIN t)

\* The power set the search iterates: v1 builds it from the catalog in every
\* call (main.go:315-320); v2 and v3 are passed the one built at startup
\* (main.go:1177, part_002:607).
PowerSetForSearch(b, t, powerSet) == IF b = "v1" THEN SUBSET (DOMAIN t) ELSE powerSet

IdleHandler ==
    [pc |-> "idle", payload |-> EmptyMap, NumberOfServings |-> 0,
     AvailableProducts |-> EmptyMap, stockAtSearch |-> EmptyMap, pending |-> {}, matching |-> << >>,
     result |-> << >>, sameAsLoad |-> TRUE, response |-> << >>, fatal |-> ""]

Init ==
    /\ build \in Builds
    /\ fixture \in Fixtures
    /\ phase = "loading"
    /\ recipes = fixture.rawRecipes
    /\ recipesAtLoad = EmptyMap
    /\ recipeNamePowerSet = {}
    /\ productDensityMap = EmptyMap
    /\ handler = [h \in Handlers |-> IdleHandler]
    /\ requestCount = 0
    /\ scaledRequestDone = FALSE

\* main.go:1099-1114 (v1: main.go:442-450, v2: part_002 main): the catalog is
\* normalized and the power set of the recipe names is built; then the
\* handlers are registered and the server listens.
Load ==
    /\ phase = "loading"
    /\ \E t \in NormalizeCatalog(recipes, fixture.ctx) :
        /\ recipes' = t
        /\ recipesAtLoad' = t
        /\ recipeNamePowerSet' = PowerSetAtLoad(build, t)
    /\ productDensityMap' = IF build = "v1" THEN EmptyMap
                            ELSE ImportFromCSVFile(fixture.conversionCSV).productDensityMap
    /\ phase' = "serving"
    /\ UNCHANGED <<build, fixture, handler, requestCount, scaledRequestDone>>

\* log.Fatal is Print followed by os.Exit(1): the process ends, with every
\* handler in it.
LogFatal(h, message) ==
    /\ handler' = [handler EXCEPT ![h] = [@ EXCEPT !.pc = "fatal", !.fatal = message]]
    /\ phase' = "exited"

\* main.go:1156-1166: the body is read and decoded into the request; a body
\* json.Unmarshal rejects ends in log.Fatal(err) (main.go:1164-1166).
ReceiveRequest(h) ==
    /\ phase = "serving"
    /\ handler[h].pc = "idle"
    /\ requestCount < MaxRequests
    /\ \/ /\ \E payload \in fixture.payloads, n \in ServingsChoices :
               handler' = [handler EXCEPT ![h] =
                   [IdleHandler EXCEPT
                       !.pc = "normalize",
                       !.payload = payload,
                       !.NumberOfServings = n,
                       !.AvailableProducts =
                           [k \in DOMAIN payload |->
                               [Name |-> "", Measurement |-> payload[k]]]]]
          /\ phase' = phase
       \/ LogFatal(h, unmarshalError)
    /\ requestCount' = requestCount + 1
    /\ UNCHANGED <<build, fixture, productDensityMap, recipes, recipesAtLoad, recipeNamePowerSet,
                   scaledRequestDone>>

\* main.go:1168-1177 up to the call of GetMatchingRecipeNameSets: the stock is
\* normalized (v1: main.go:478-491, where the catalog is scaled as well).
NormalizeStock(h) ==
    /\ phase = "serving"
    /\ handler[h].pc = "normalize"
    /\ \E stock \in NormalizeProductMap(handler[h].AvailableProducts, fixture.ctx) :
        handler' = [handler EXCEPT ![h] =
            [@ EXCEPT !.pc = "search",
                      !.AvailableProducts = stock,
                      !.stockAtSearch = stock,
                      !.pending = PowerSetForSearch(build, recipes, recipeNamePowerSet)]]
    /\ recipes' = CatalogForSearch(build, recipes, handler[h].NumberOfServings)
    /\ UNCHANGED <<build, fixture, productDensityMap, phase, recipesAtLoad, recipeNamePowerSet,
                   requestCount, scaledRequestDone>>

\* main.go:945-997: one element of the power set is produced by Iter() and the
\* closure runs on it.
EvaluateSubset(h) ==
    /\ phase = "serving"
    /\ handler[h].pc = "search"
    /\ \E S \in handler[h].pending :
       \E ord \in IngredientOrders(S, recipes) :
        LET cur == handler[h]
            run == EvaluateRecipeNameSubset(build, recipes, cur.AvailableProducts, ord,
                                            productDensityMap, cur.NumberOfServings)
            ref == EvaluateRecipeNameSubset(build, recipesAtLoad, cur.AvailableProducts,
                                            ord, productDensityMap, cur.NumberOfServings)
        IN  handler' = [handler EXCEPT ![h] =
                [@ EXCEPT !.AvailableProducts = run.avail,
                          !.pending = @ \ {S},
                          !.matching = IF RecordsSubset(run.ok, S)
                                       THEN Append(@, S) ELSE @,
                          !.sameAsLoad = @ /\ run.ok = ref.ok /\ run.avail = ref.avail]]
    /\ UNCHANGED <<build, fixture, productDensityMap, phase, recipes, recipesAtLoad, recipeNamePowerSet,
                   requestCount, scaledRequestDone>>

\* main.go:999-1018: the matching sets that are subsets of another are dropped
\* and the rest is returned.
Reduce(h) ==
    /\ phase = "serving"
    /\ handler[h].pc = "search"
    /\ handler[h].pending = {}
    /\ handler' = [handler EXCEPT ![h] =
            [@ EXCEPT !.pc = "respond", !.result = MaximalOnly(handler[h].matching)]]
    /\ UNCHANGED <<build, fixture, productDensityMap, phase, recipes, recipesAtLoad, recipeNamePowerSet,
                   requestCount, scaledRequestDone>>

\* main.go:1009-1015: each returned set is copied into a slice, in the order
\* the set's Iter() produces its elements.
SliceOrders(result) ==
    {sl \in [1..Len(result) -> UNION {Perms(result[i]) : i \in 1..Len(result)}] :
        \A i \in 1..Len(result) : sl[i] \in Perms(result[i])}

\* A response entry that leaves the source out.
ResponseEntryWithoutSource(recipeSources, matchingRecipeName) ==
    [Name |-> matchingRecipeName, Source |-> ""]

\* main.go:1191-1194
ResponseEntry(recipeSources, matchingRecipeName) ==
    [Name |-> matchingRecipeName, Source |-> recipeSources[matchingRecipeName]]

\* main.go:1182-1198
ResponseList(recipeSources, slices) ==
    [i \in 1..Len(slices) |->
        [j \in 1..Len(slices[i]) |-> ResponseEntry(recipeSources, slices[i][j])]]

\* main.go:1182-1203: the response list is built and marshalled; a returned
\* recipe name without source ends in log.Fatal("recipe not found")
\* (main.go:1186-1189).
BuildResponse(h) ==
    /\ phase = "serving"
    /\ handler[h].pc = "respond"
    /\ IF \E i \in 1..Len(handler[h].result) :
             \E matchingRecipeName \in handler[h].result[i] :
                matchingRecipeName \notin DOMAIN fixture.sources
       THEN LogFatal(h, recipeNotFound)
       ELSE /\ \E slices \in SliceOrders(handler[h].result) :
                 handler' = [handler EXCEPT ![h] =
                     [@ EXCEPT !.pc = "write",
                               !.response = ResponseList(fixture.sources, slices)]]
            /\ phase' = phase
    /\ UNCHANGED <<build, fixture, productDensityMap, recipes, recipesAtLoad, recipeNamePowerSet,
                   requestCount, scaledRequestDone>>

\* main.go:1205-1209: the response is written; the handler returns.
Respond(h) ==
    /\ phase = "serving"
    /\ handler[h].pc = "write"
    /\ handler' = [handler EXCEPT ![h] = IdleHandler]
    /\ scaledRequestDone' = (scaledRequestDone \/ handler[h].NumberOfServings > 1)
    /\ UNCHANGED <<build, fixture, productDensityMap, phase, recipes, recipesAtLoad, recipeNamePowerSet,
                   requestCount>>

Next ==
    \/ Load
    \/ \E h \in Handlers : ReceiveRequest(h)
    \/ \E h \in Handlers : NormalizeStock(h)
    \/ \E h \in Handlers : EvaluateSubset(h)
    \/ \E h \in Handlers : Reduce(h)
    \/ \E h \in Handlers : BuildResponse(h)
    \/ \E h \in Handlers : Respond(h)

Spec == Init /\ [][Next]_vars

\* The server started on each of the normalization contexts.
InitNorm ==
    /\ build = "v3"
    /\ fixture \in {FixtureN(ctx) : ctx \in NormContexts}
    /\ phase = "loading"
    /\ recipes = fixture.rawRecipes
    /\ recipesAtLoad = EmptyMap
    /\ recipeNamePowerSet = {}
    /\ productDensityMap = EmptyMap
    /\ handler = [h \in Handlers |-> IdleHandler]
    /\ requestCount = 0
    /\ scaledRequestDone = FALSE

SpecNorm == InitNorm /\ [][Next]_vars

\* net/http runs every request in a goroutine of its own: two calls of the
\* /recipes handler (main.go:1155-1210 or part_002's) in flight at once, their
\* steps interleaved.
ConcurrentHandlers == {"h1", "h2"}

\* Two recipes that compete for one product.
RecipesConc ==
    ("bread" :> ("flour" :> MkProduct("flour", 300, "g")))
    @@ ("buns" :> ("flour" :> MkProduct("flour", 200, "g")))

FixtureConc ==
    [name |-> "conc", ctx |-> EmptyContext, conversionCSV |-> NoCSV,
     rawRecipes |-> RecipesConc,
     payloads |-> {"flour" :> MkMeasurement(1000, "g")},
     sources |-> ("bread" :> "bread.example/9") @@ ("buns" :> "buns.example/10"),
     invalidUnitDescription |-> FALSE]

InitConc ==
    /\ build \in {"v2", "v3"}
    /\ fixture = FixtureConc
    /\ phase = "loading"
    /\ recipes = fixture.rawRecipes
    /\ recipesAtLoad = EmptyMap
    /\ recipeNamePowerSet = {}
    /\ productDensityMap = EmptyMap
    /\ handler = [h \in ConcurrentHandlers |-> IdleHandler]
    /\ requestCount = 0
    /\ scaledRequestDone = FALSE

NextConc ==
    \/ Load
    \/ \E h \in ConcurrentHandlers : ReceiveRequest(h)
    \/ \E h \in ConcurrentHandlers : NormalizeStock(h)
    \/ \E h \in ConcurrentHandlers : EvaluateSubset(h)
    \/ \E h \in ConcurrentHandlers : Reduce(h)
    \/ \E h \in ConcurrentHandlers : BuildResponse(h)
    \/ \E h \in ConcurrentHandlers : Respond(h)

SpecConc == InitConc /\ [][NextConc]_vars

(***************************************************************************)
(* Properties.                                                             *)
(***************************************************************************)
Range(seq) == {seq[i] : i \in 1..Len(seq)}

Searched(h) == handler[h].pc \in {"search", "respond"}
Answered(h) == handler[h].pc = "respond"

\* S can be prepared from stock: the closure, run on a stock of its own,
\* records S.
Feasible(b, t, stock, S, numberOfServings) ==
    /\ S # {}
    /\ \E ord \in IngredientOrders(S, t) :
        EvaluateRecipeNameSubset(b, t, stock, ord, productDensityMap, numberOfServings).ok

FeasibleSets(b, t, stock, numberOfServings) ==
    {S \in SUBSET (DOMAIN t) : Feasible(b, t, stock, S, numberOfServings)}

MaximalSets(F) == {S \in F : ~\E T \in F : S # T /\ S \subseteq T}

ScenarioAStock ==
    ("flour" :> MkProduct("flour", 500, "g")) @@ ("sugar" :> MkProduct("sugar", 200, "g"))

\* C1: for servings >= 1 the collection GetMatchingRecipeNameSets (v3) returns
\* is exactly the set of maximal feasible non-empty recipe subsets of the
\* request's normalized stock.
C1_ReturnsMaximalFeasibleSets ==
    \A h \in Handlers :
        (build = "v3" /\ Answered(h) /\ handler[h].NumberOfServings >= 1)
        => Range(handler[h].result)
           = MaximalSets(FeasibleSets(build, recipes, handler[h].stockAtSearch,
                                      handler[h].NumberOfServings))

\* C2: during and after the search (v3, servings >= 1) the request's stock
\* snapshot holds the quantities it held when the search began, so no subset
\* sees what another one subtracted.
C2_StockSnapshotUntouched ==
    \A h \in Handlers :
        (build = "v3" /\ Searched(h) /\ handler[h].NumberOfServings >= 1)
        => handler[h].AvailableProducts = handler[h].stockAtSearch

\* C3: a request with servings = 1 handled after a request with servings > 1
\* (v2, v3: servings applied at the point of use) reads the catalog as it was
\* loaded, and every subset it evaluates ends as it would against the loaded
\* catalog.
C3_UnscaledAfterScaledRequest ==
    \A h \in Handlers :
        (build # "v1" /\ scaledRequestDone /\ Searched(h)
         /\ handler[h].NumberOfServings = 1)
        => (recipes = recipesAtLoad /\ handler[h].sameAsLoad)

C3_Witness ==
    \E h \in Handlers :
        /\ build = "v3" /\ scaledRequestDone /\ Answered(h)
        /\ handler[h].NumberOfServings = 1
        /\ handler[h].result # << >>

\* C4: once the server serves, no request changes the catalog, whatever
\* numberOfServings it carries.
C4_CatalogNeverWritten ==
    phase = "serving" => recipes = recipesAtLoad

\* C5: the returned list is an antichain: no entry is a subset of another.
C5_ResultIsAntichain ==
    \A h \in Handlers :
        Answered(h)
        => \A i, j \in 1..Len(handler[h].result) :
              i # j => ~(handler[h].result[i] \subseteq handler[h].result[j])

C5_Witness ==
    \E h \in Handlers :
        /\ Answered(h)
        /\ Len(handler[h].result) >= 1
        /\ Len(handler[h].matching) > Len(handler[h].result)

\* C6: if a subset was recorded as feasible by the search (v3), every
\* non-empty subset of it was recorded as feasible too.
C6_SubsetMonotonicity ==
    \A h \in Handlers :
        (build = "v3" /\ Answered(h))
        => \A S \in Range(handler[h].matching) :
              \A T \in SUBSET S : T # {} => T \in Range(handler[h].matching)

\* The context holds nothing that applies to p: no alias section and no
\* conversion for its unit, no alias for its name.
IsReference(p, ctx) ==
    /\ p.Measurement.Unit \notin DOMAIN ctx.AliasTable
    /\ p.Measurement.Unit \notin DOMAIN ctx.UnitConversionTable
    /\ p.Measurement.Unit \notin DOMAIN ctx.BaseUnitConversionMap
    /\ p.Name \notin DOMAIN ctx.productAliasMap

\* C7: normalization is idempotent: ConvertUnit applied to a product that
\* ConvertUnit returned leaves name, unit and quantity unchanged.
C7_NormalizationIdempotent ==
    \A h \in Handlers :
        Searched(h)
        => \A k \in DOMAIN handler[h].stockAtSearch :
              ConvertUnit(handler[h].stockAtSearch[k], fixture.ctx)
              = handler[h].stockAtSearch[k]

\* C7 as amended: ConvertUnit applied to a product that ConvertUnit returned
\* leaves it unchanged whenever the returned unit has no alias section and no
\* conversion and the returned name has no product alias.
C7_IdempotentOnReferenceResults ==
    \A h \in Handlers :
        Searched(h)
        => \A k \in DOMAIN handler[h].stockAtSearch :
              IsReference(handler[h].stockAtSearch[k], fixture.ctx)
              => ConvertUnit(handler[h].stockAtSearch[k], fixture.ctx)
                 = handler[h].stockAtSearch[k]

C7_Witness ==
    \E h \in Handlers :
        /\ Searched(h)
        /\ handler[h].payload = ("plain flour" :> MkMeasurement(2, "cup"))
        /\ handler[h].stockAtSearch = ("flour" :> MkProduct("flour", 240, "g"))
        /\ IsReference(handler[h].stockAtSearch["flour"], fixture.ctx)

\* The catalog t with the quantity of every to-taste ingredient set to q.
WithToTasteQuantity(b, t, q) ==
    [r \in DOMAIN t |-> [k \in DOMAIN t[r] |->
        IF t[r][k].Measurement.Unit = ToTasteMarker(b)
        THEN [t[r][k] EXCEPT !.Measurement.Quantity = q]
        ELSE t[r][k]]]

\* C8: a to-taste requirement for a product in stock changes no remaining
\* quantity and never ends the evaluation of a subset, and the quantity the
\* catalog records for it decides nothing: every subset ends the same, with
\* the same stock, whatever that quantity is.
C8_ToTasteConsumesNothing ==
    \A h \in Handlers :
        (handler[h].pc = "search"
         /\ \E r \in DOMAIN recipes : \E k \in DOMAIN recipes[r] :
               recipes[r][k].Measurement.Unit = ToTasteMarker(build))
        => LET cur == handler[h]
               fresh == [avail |-> cur.AvailableProducts,
                         rem |-> CloneProducts(build, cur.AvailableProducts),
                         live |-> TRUE, ok |-> TRUE]
           IN  /\ \A r \in DOMAIN recipes : \A k \in DOMAIN recipes[r] :
                     (recipes[r][k].Measurement.Unit = ToTasteMarker(build)
                      /\ recipes[r][k].Name \in DOMAIN cur.AvailableProducts)
                     => IngredientStep(build, fresh, recipes[r][k], productDensityMap,
                                       cur.NumberOfServings) = fresh
               /\ \A S \in cur.pending :
                  \A ord \in IngredientOrders(S, recipes) :
                     LET a == EvaluateRecipeNameSubset(build, recipes,
                                  cur.AvailableProducts, ord, productDensityMap,
                                  cur.NumberOfServings)
                     IN  \A q \in ToTasteQuantities \cup {1} :
                            LET c == EvaluateRecipeNameSubset(build,
                                         WithToTasteQuantity(build, recipes, q),
                                         cur.AvailableProducts, ord, productDensityMap,
                                         cur.NumberOfServings)
                            IN  a.ok = c.ok /\ a.avail = c.avail

C8_Witness ==
    \E h \in Handlers :
        /\ build = "v3" /\ fixture.name = "T" /\ Answered(h)
        /\ handler[h].NumberOfServings = 2
        /\ recipes["soup"]["salt"].Measurement.Quantity = 7
        /\ handler[h].stockAtSearch["salt"].Measurement = MkMeasurement(0, "g")
        /\ {"soup"} \in Range(handler[h].matching)

\* C9: in scenario A with servings = 1 the subsets recorded as feasible (v3)
\* are exactly {cake} and {cookies}, and both are returned.
C9_ScenarioA ==
    \A h \in Handlers :
        (build = "v3" /\ fixture.name = "A" /\ Answered(h)
         /\ handler[h].stockAtSearch = ScenarioAStock
         /\ handler[h].NumberOfServings = 1)
        => /\ Range(handler[h].matching) = {{"cake"}, {"cookies"}}
           /\ Range(handler[h].result) = {{"cake"}, {"cookies"}}

\* C10: in scenario B the stock {butter: 1 cup} is normalized to 240 g by the
\* base conversion, and the recipe requiring 200 g of butter is returned.
C10_ScenarioB ==
    \A h \in Handlers :
        (build # "v1" /\ fixture.name = "B" /\ Searched(h)
         /\ handler[h].payload = ("butter" :> MkMeasurement(1, "cup")))
        => /\ handler[h].stockAtSearch = ("butter" :> MkProduct("butter", 240, "g"))
           /\ (Answered(h) /\ handler[h].NumberOfServings = 1
               => handler[h].result = <<{"toast"}>>)

C10_Witness ==
    \E h \in Handlers :
        /\ build = "v3" /\ fixture.name = "B" /\ Answered(h)
        /\ handler[h].payload = ("butter" :> MkMeasurement(1, "cup"))
        /\ handler[h].NumberOfServings = 1
        /\ handler[h].result = <<{"toast"}>>

\* The units of requirement and stock can be compared: they are equal, or the
\* product has a density entry whose (volume, mass) or (mass, volume) pair
\* they are.
UnitsComparable(ingredient, stockUnit, densityMap) ==
    LET ingUnit == ingredient.Measurement.Unit IN
    \/ ingUnit = stockUnit
    \/ /\ ingredient.Name \in DOMAIN densityMap
       /\ LET d == densityMap[ingredient.Name] IN
          \/ ingUnit = d.VolumeUnit /\ stockUnit = d.MassUnit
          \/ ingUnit = d.MassUnit /\ stockUnit = d.VolumeUnit

\* C11: strict policy on incomparable units (v2, v3): a recipe with a
\* requirement that is not to taste, whose product is in stock with a unit that
\* is neither equal nor related to the requirement's by the product's density
\* entry, is in no subset the search records; in particular stock
\* {milk: 500 ml} with density {g, cup} records nothing and returns nothing.
C11_IncomparableUnitsInfeasible ==
    \A h \in Handlers :
        (build # "v1" /\ Searched(h))
        => /\ \A i \in 1..Len(handler[h].matching) :
              \A r \in handler[h].matching[i] :
              \A k \in DOMAIN recipes[r] :
                 (~IsToTaste(build, recipes[r][k])
                  /\ recipes[r][k].Name \in DOMAIN handler[h].stockAtSearch)
                 => UnitsComparable(recipes[r][k],
                        handler[h].stockAtSearch[recipes[r][k].Name].Measurement.Unit,
                        productDensityMap)
           /\ (fixture.name = "C"
               /\ handler[h].payload = ("milk" :> MkMeasurement(500, "ml")))
              => handler[h].matching = << >>

C11_Witness ==
    \E h \in Handlers :
        /\ build = "v3" /\ fixture.name = "C" /\ Answered(h)
        /\ handler[h].payload = ("milk" :> MkMeasurement(500, "ml"))
        /\ handler[h].stockAtSearch = ("milk" :> MkProduct("milk", 500, "ml"))
        /\ handler[h].NumberOfServings = 1
        /\ handler[h].result = << >>

\* C12: a request whose numberOfServings is absent (0), negative or 1 is
\* answered as the same stock with numberOfServings = 1: it returns the maximal
\* sets feasible at one serving (v2, v3).
C12_ServingsAtMostOneIsNoScaling ==
    \A h \in Handlers :
        (build # "v1" /\ Answered(h) /\ handler[h].NumberOfServings < 1)
        => Range(handler[h].result)
           = MaximalSets(FeasibleSets(build, recipes, handler[h].stockAtSearch, 1))

\* C13: with two /recipes handlers interleaved (v2, v3), no step of a handler
\* changes the catalog, the conversion and alias contexts, the density map or
\* the power set, and every subset a handler evaluates ends as it ends when the
\* request is handled alone: with the verdict and the stock the same evaluation
\* gives against the catalog as it was loaded.
C13_HandlersDoNotInterfere ==
    /\ [](phase = "serving"
          => /\ recipes = recipesAtLoad
             /\ recipeNamePowerSet = PowerSetAtLoad(build, recipesAtLoad)
             /\ \A h \in DOMAIN handler : handler[h].sameAsLoad)
    /\ [][phase = "serving"
          => /\ fixture' = fixture
             /\ recipes' = recipes
             /\ recipeNamePowerSet' = recipeNamePowerSet
             /\ productDensityMap' = productDensityMap
             /\ \A h \in DOMAIN handler :
                   handler'[h] # handler[h]
                   => \A g \in DOMAIN handler \ {h} : handler'[g] = handler[g]]_vars

C13_Witness ==
    /\ build = "v3" /\ fixture.name = "conc"
    /\ handler["h1"].pc = "search" /\ handler["h1"].NumberOfServings = 2
    /\ handler["h1"].pending # {} /\ handler["h1"].matching # << >>
    /\ handler["h2"].pc = "search" /\ handler["h2"].NumberOfServings = 1
    /\ handler["h2"].pending # {} /\ handler["h2"].matching # << >>

\* C14: the response written for a request holds one list per returned
\* maximal set, in the same order, each list holds exactly one entry per recipe
\* of its set, and each entry carries the recipe's name with the source the
\* Recipe Source Map records for that name.
C14_ResponseListsNamesWithSources ==
    \A h \in Handlers :
        handler[h].pc = "write"
        => LET result == handler[h].result
               response == handler[h].response
           IN  /\ Len(response) = Len(result)
               /\ \A i \in 1..Len(response) :
                     /\ Len(response[i]) = Cardinality(result[i])
                     /\ {response[i][j].Name : j \in 1..Len(response[i])} = result[i]
                     /\ \A j \in 1..Len(response[i]) :
                           /\ response[i][j].Name \in DOMAIN fixture.sources
                           /\ response[i][j].Source
                              = fixture.sources[response[i][j].Name]

C14_Witness ==
    \E h \in Handlers :
        /\ build = "v3" /\ fixture.name = "A" /\ handler[h].pc = "write"
        /\ handler[h].response
           = << <<[Name |-> "cake", Source |-> "cakes.example/1"],
                  [Name |-> "cookies", Source |-> "cookies.example/2"]>> >>

\* C15: a request whose body cannot be parsed ends in a client error for that
\* request only: the handler that met the decoding error does not end the
\* process, and the server keeps serving.
C15_MalformedPayloadIsClientError ==
    \A h \in Handlers :
        handler[h].fatal = unmarshalError => phase = "serving"

\* C16: the serving state is never reached with a catalog integrity error
\* present: a recipe of the catalog without entry in the Recipe Source Map, or
\* a conversion-table unit description that is malformed.
C16_IntegrityErrorsFatalAtLoad ==
    phase = "serving"
    => /\ \A r \in DOMAIN recipes : r \in DOMAIN fixture.sources
       /\ ~fixture.invalidUnitDescription

RECURSIVE SumOver(_, _)
SumOver(f, D) ==
    IF D = {} THEN 0
    ELSE LET d == CHOOSE x \in D : TRUE IN f[d] + SumOver(f, D \ {d})

\* The requirements of the recipes of S that are not to taste, as pairs
\* <<recipe name, ingredient key>>.
Requirements(b, t, S) ==
    {rk \in UNION {{<<r, k>> : k \in DOMAIN t[r]} : r \in S} :
        ~IsToTaste(b, t[rk[1]][rk[2]])}

\* The quantity a requirement takes from a stock kept in stockUnit, for
\* comparable units: scaled by the servings, through the density when the
\* units differ.
NeededQuantity(ingredient, stockUnit, densityMap, numberOfServings) ==
    LET q == ingredient.Measurement.Quantity * numberOfServings IN
    IF ingredient.Measurement.Unit = stockUnit THEN q
    ELSE IF ingredient.Measurement.Unit = densityMap[ingredient.Name].VolumeUnit
         THEN q * densityMap[ingredient.Name].Quantity
         ELSE Quot(q, densityMap[ingredient.Name].Quantity)

\* S can be prepared from stock: every ingredient names a stock product, every
\* requirement's unit can be compared with the stock's, and for each stock
\* product the requirements of all recipes of S together do not exceed it.
JointlyFeasible(b, t, stock, S, densityMap, numberOfServings) ==
    /\ \A r \in S : \A k \in DOMAIN t[r] : t[r][k].Name \in DOMAIN stock
    /\ \A rk \in Requirements(b, t, S) :
          UnitsComparable(t[rk[1]][rk[2]], stock[t[rk[1]][rk[2]].Name].Measurement.Unit,
                          densityMap)
    /\ \A p \in DOMAIN stock :
          LET of == {rk \in Requirements(b, t, S) : t[rk[1]][rk[2]].Name = p}
              need == [rk \in of |->
                          NeededQuantity(t[rk[1]][rk[2]], stock[p].Measurement.Unit,
                                         densityMap, numberOfServings)]
          IN  SumOver(need, of) <= stock[p].Measurement.Quantity

\* C17: a non-empty subset the search (v3) has evaluated is recorded exactly
\* when it can be prepared from the request's stock: all products present,
\* all units comparable, and the summed requirements of its recipes within the
\* stock quantity (equality included), for servings >= 1.
C17_RecordedIffJointlyFeasible ==
    \A h \in Handlers :
        (build = "v3" /\ Searched(h) /\ handler[h].NumberOfServings >= 1)
        => \A S \in (SUBSET (DOMAIN recipes)) \ (handler[h].pending \cup {{}}) :
              S \in Range(handler[h].matching)
              <=> JointlyFeasible(build, recipes, handler[h].stockAtSearch, S,
                                  productDensityMap, handler[h].NumberOfServings)

\* What one pass of the loop body for ingredient takes from a stock that holds
\* enough of the product, in the stock's unit.
ConsumedBy(b, stock, ingredient, densityMap, numberOfServings) ==
    LET k == ingredient.Name
        plenty == [stock EXCEPT ![k].Measurement.Quantity = 1000000]
        before == [avail |-> plenty, rem |-> CloneProducts(b, plenty),
                   live |-> TRUE, ok |-> TRUE]
        after == IngredientStep(b, before, ingredient, densityMap, numberOfServings)
    IN  RemainingMeasurement(before, k).Quantity - RemainingMeasurement(after, k).Quantity

\* The requirements of the catalog that are not to taste and meet a stock
\* product of the request of handler h, as pairs <<recipe name, key>>.
RequirementsInStock(h) ==
    {rk \in Requirements(build, recipes, DOMAIN recipes) :
        recipes[rk[1]][rk[2]].Name \in DOMAIN handler[h].stockAtSearch}

\* C18: for servings >= 1, a requirement that is not to taste and has the unit
\* of the stock takes from the stock exactly the quantity the catalog was
\* loaded with times the numberOfServings of the request being handled.
C18_ConsumesQuantityTimesServings ==
    \A h \in Handlers :
        (handler[h].pc = "search" /\ handler[h].NumberOfServings >= 1)
        => \A rk \in RequirementsInStock(h) :
              LET ingredient == recipes[rk[1]][rk[2]]
                  stock == handler[h].stockAtSearch
              IN  ingredient.Measurement.Unit = stock[ingredient.Name].Measurement.Unit
                  => ConsumedBy(build, stock, ingredient, productDensityMap,
                                handler[h].NumberOfServings)
                     = recipesAtLoad[rk[1]][rk[2]].Measurement.Quantity
                       * handler[h].NumberOfServings

\* C19: a subset with an ingredient whose product has no entry in the
\* normalized stock is never recorded, whether or not the ingredient is to
\* taste, and evaluating it raises no error: the handler goes on and the
\* server keeps serving.
C19_MissingProductInfeasible ==
    \A h \in Handlers :
        Searched(h)
        => /\ \A i \in 1..Len(handler[h].matching) :
              \A r \in handler[h].matching[i] :
              \A k \in DOMAIN recipes[r] :
                 recipes[r][k].Name \in DOMAIN handler[h].stockAtSearch
           /\ handler[h].fatal = ""
           /\ phase = "serving"

C19_Witness ==
    \E h \in Handlers :
        /\ build = "v3" /\ fixture.name = "T" /\ Answered(h)
        /\ handler[h].NumberOfServings = 1
        /\ IsToTaste(build, recipes["soup"]["salt"])
        /\ DOMAIN handler[h].stockAtSearch = {"flour", "pepper"}
        /\ handler[h].result = <<{"stew"}>>

\* C20: when the units of requirement and stock differ and the product has a
\* density entry (v2, v3): a requirement in the entry's volume unit takes
\* quantity * servings * ratio from a stock in its mass unit, and a requirement
\* in the mass unit takes quantity * servings / ratio from a stock in the
\* volume unit.
C20_DensityConversion ==
    \A h \in Handlers :
        (build # "v1" /\ handler[h].pc = "search")
        => \A rk \in RequirementsInStock(h) :
              LET ingredient == recipes[rk[1]][rk[2]]
                  stock == handler[h].stockAtSearch
                  stockUnit == stock[ingredient.Name].Measurement.Unit
                  n == handler[h].NumberOfServings
                  consumed == ConsumedBy(build, stock, ingredient, productDensityMap, n)
              IN  (ingredient.Measurement.Unit # stockUnit
                   /\ ingredient.Name \in DOMAIN productDensityMap)
                  => LET d == productDensityMap[ingredient.Name] IN
                     /\ (ingredient.Measurement.Unit = d.VolumeUnit
                         /\ stockUnit = d.MassUnit)
                        => consumed = ingredient.Measurement.Quantity * n * d.Quantity
                     /\ (ingredient.Measurement.Unit = d.MassUnit
                         /\ stockUnit = d.VolumeUnit)
                        => consumed * d.Quantity = ingredient.Measurement.Quantity * n

C20_Witness ==
    \E h \in Handlers :
        /\ build = "v3" /\ fixture.name = "C" /\ handler[h].pc = "search"
        /\ handler[h].NumberOfServings = 1
        /\ handler[h].stockAtSearch = ("milk" :> MkProduct("milk", 3, "cup"))
        /\ recipes["porridge"]["milk"].Measurement = MkMeasurement(480, "g")
        /\ handler[h].matching = <<{"porridge"}>>
        /\ handler[h].AvailableProducts["milk"].Measurement = MkMeasurement(1, "cup")

\* The request of handler h has been decoded.
Decoded(h) == handler[h].pc \notin {"idle", "fatal"}

\* The stock entries of the request of handler h as ConvertUnit receives them
\* (main.go:1168-1170).
PayloadProducts(h) ==
    {[Name |-> k, Measurement |-> handler[h].payload[k]] : k \in DOMAIN handler[h].payload}

\* C21: the conversion lookup of normalize applies the product-specific
\* conversion when ConversionTable[unit][productName] exists and otherwise,
\* whenever BaseConversionMap[unit] exists, the base conversion: quantity
\* times its factor, unit replaced by its target, also when the table has
\* entries for the unit but none for the product.
C21_BaseConversionFallback ==
    \A h \in Handlers :
        Decoded(h)
        => \A p \in PayloadProducts(h) :
              LET ctx == fixture.ctx
                  unit == ResolveUnitAlias(p, ctx)
                  name == ResolveProductAlias(p, ctx)
                  specific == /\ unit \in DOMAIN ctx.UnitConversionTable
                              /\ name \in DOMAIN ctx.UnitConversionTable[unit]
                  converted == ConvertUnit(p, ctx)
              IN  /\ specific
                     => converted.Measurement
                        = MkMeasurement(
                              p.Measurement.Quantity
                              * ctx.UnitConversionTable[unit][name].Quantity,
                              ctx.UnitConversionTable[unit][name].Unit)
                  /\ (~specific /\ unit \in DOMAIN ctx.BaseUnitConversionMap)
                     => converted.Measurement
                        = MkMeasurement(
                              p.Measurement.Quantity
                              * ctx.BaseUnitConversionMap[unit].Quantity,
                              ctx.BaseUnitConversionMap[unit].Unit)

\* C22: the unit alias resolution of normalize replaces the unit by
\* UnitAliasTable[unit][productName] when that exists and otherwise, whenever
\* BaseAliasMap[unit] exists, by the base alias, also when the table has no
\* section for the unit.
C22_BaseAliasFallback ==
    \A h \in Handlers :
        Decoded(h)
        => \A p \in PayloadProducts(h) :
              LET ctx == fixture.ctx
                  unit == p.Measurement.Unit
                  specific == /\ unit \in DOMAIN ctx.AliasTable
                              /\ p.Name \in DOMAIN ctx.AliasTable[unit]
              IN  /\ specific => ResolveUnitAlias(p, ctx) = ctx.AliasTable[unit][p.Name]
                  /\ (~specific /\ unit \in DOMAIN ctx.BaseAliasMap)
                     => ResolveUnitAlias(p, ctx) = ctx.BaseAliasMap[unit]

\* The name the product alias map gives the product, its own when it has none.
CanonicalName(p, ctx) ==
    IF p.Name \in DOMAIN ctx.productAliasMap THEN ctx.productAliasMap[p.Name] ELSE p.Name

\* C23: normalize resolves the product alias before the conversion lookup:
\* the result carries the canonical name, a product-specific conversion
\* recorded under the canonical name for the alias-resolved unit is applied,
\* and one recorded only under the caller's original name is not.
C23_ProductAliasBeforeConversion ==
    \A h \in Handlers :
        Decoded(h)
        => \A p \in PayloadProducts(h) :
              LET ctx == fixture.ctx
                  unit == ResolveUnitAlias(p, ctx)
                  canonical == CanonicalName(p, ctx)
                  converted == ConvertUnit(p, ctx)
              IN  /\ converted.Name = canonical
                  /\ unit \in DOMAIN ctx.UnitConversionTable
                     => IF canonical \in DOMAIN ctx.UnitConversionTable[unit]
                        THEN converted.Measurement
                             = MkMeasurement(
                                   p.Measurement.Quantity
                                   * ctx.UnitConversionTable[unit][canonical].Quantity,
                                   ctx.UnitConversionTable[unit][canonical].Unit)
                        ELSE converted.Measurement
                             = MkMeasurement(p.Measurement.Quantity, unit)

C23_Witness ==
    \E h \in Handlers :
        /\ Searched(h)
        /\ handler[h].payload = ("plain flour" :> MkMeasurement(2, "cup"))
        /\ fixture.ctx.productAliasMap = ("plain flour" :> "flour")
        /\ fixture.ctx.UnitConversionTable = ("cup" :> ("flour" :> MkMeasurement(120, "g")))
        /\ fixture.ctx.BaseUnitConversionMap = ("cup" :> MkMeasurement(240, "g"))
        /\ handler[h].stockAtSearch = ("flour" :> MkProduct("flour", 240, "g"))

\* C24: when, after alias resolution, the product's unit has neither a
\* product-specific nor a base conversion, normalize leaves quantity and unit
\* as they are, and the handler goes on without error.
C24_NoConversionLeavesUnchanged ==
    \A h \in Handlers :
        Decoded(h)
        => \A p \in PayloadProducts(h) :
              LET ctx == fixture.ctx
                  unit == ResolveUnitAlias(p, ctx)
                  canonical == CanonicalName(p, ctx)
                  specific == /\ unit \in DOMAIN ctx.UnitConversionTable
                              /\ canonical \in DOMAIN ctx.UnitConversionTable[unit]
              IN  (~specific /\ unit \notin DOMAIN ctx.BaseUnitConversionMap)
                  => /\ ConvertUnit(p, ctx).Measurement
                        = MkMeasurement(p.Measurement.Quantity, unit)
                     /\ handler[h].fatal = ""
                     /\ phase = "serving"

C24_Witness ==
    \E h \in Handlers :
        /\ Searched(h)
        /\ handler[h].payload = ("flour" :> MkMeasurement(2, "spoon"))
        /\ fixture.ctx.UnitConversionTable = ("cup" :> ("flour" :> MkMeasurement(120, "g")))
        /\ fixture.ctx.BaseUnitConversionMap = ("cup" :> MkMeasurement(240, "g"))
        /\ handler[h].stockAtSearch = ("flour" :> MkProduct("flour", 2, "spoon"))

\* C25: the empty recipe subset is never recorded or returned: every returned
\* set has at least one element, and when no single recipe can be prepared
\* from the request's stock the returned list is empty.
C25_EmptySubsetNeverReturned ==
    \A h \in Handlers :
        /\ Searched(h) => {} \notin Range(handler[h].matching)
        /\ Answered(h)
           => /\ \A i \in 1..Len(handler[h].result) : handler[h].result[i] # {}
              /\ (\A r \in DOMAIN recipes :
                     ~Feasible(build, recipes, handler[h].stockAtSearch, {r},
                               handler[h].NumberOfServings))
                 => handler[h].result = << >>

C25_Witness ==
    \E h \in Handlers :
        /\ build = "v3" /\ fixture.name = "A" /\ Answered(h)
        /\ handler[h].NumberOfServings = 1
        /\ handler[h].payload = ("flour" :> MkMeasurement(500, "g"))
        /\ handler[h].pending = {}
        /\ handler[h].result = << >>

\* The product records of the conversion CSV that were read: none when the
\* header was rejected.
ImportedRows ==
    IF fixture.conversionCSV.given /\ \A i \in DOMAIN fixture.conversionCSV.header :
                                         fixture.conversionCSV.header[i].valid
    THEN Range(fixture.conversionCSV.rows)
    ELSE {}

\* The columns of a product record that hold a measurement.
NonEmptyCells(row) == {i \in DOMAIN row.cells : row.cells[i].present}

\* The samples of a product record: its entries measured in massUnit in a
\* column of unit volumeUnit.
QualifyingCells(row, massUnit, volumeUnit) ==
    {i \in NonEmptyCells(row) :
        /\ row.cells[i].Unit = massUnit
        /\ fixture.conversionCSV.header[i].unit = volumeUnit}

\* C26: once loading is done the density of every product row with a
\* measurement has as mass unit the unit of the first measurement of the row,
\* as volume unit the unit of the column of that measurement, and as ratio the
\* arithmetic mean, over the entries of the row in that mass unit under a
\* column of that volume unit, of the measured quantity divided by the base
\* conversion factor of the column's unit.
C26_DensityDerivation ==
    (phase = "serving" /\ build # "v1")
    => /\ DOMAIN productDensityMap = {row.product : row \in ImportedRows}
       /\ \A row \in ImportedRows :
             NonEmptyCells(row) # {}
             => LET d == productDensityMap[row.product]
                    first == CHOOSE i \in NonEmptyCells(row) :
                                 \A j \in NonEmptyCells(row) : i <= j
                    samples == QualifyingCells(row, d.MassUnit, d.VolumeUnit)
                    normalized == [i \in samples |->
                                      row.cells[i].Quantity
                                      \div fixture.conversionCSV.header[i].quantity]
                IN  /\ d.MassUnit = row.cells[first].Unit
                    /\ d.VolumeUnit = fixture.conversionCSV.header[first].unit
                    /\ first \in samples
                    /\ ~IsNaN(d.Quantity)
                    /\ d.Quantity * Cardinality(samples) = SumOver(normalized, samples)

\* milk: two samples (480 g and 520 g per cup of 2 dl), honey: one sample and an
\* entry under another column, syrup: a second entry in another unit.
C26_Witness ==
    /\ phase = "serving" /\ build = "v3" /\ fixture.name = "D"
    /\ productDensityMap["milk"] = MkDensity(250, "g", "cup")
    /\ productDensityMap["honey"] = MkDensity(20, "g", "spoon")
    /\ productDensityMap["syrup"] = MkDensity(150, "ml", "cup")
    /\ \E h \in DOMAIN handler : Answered(h)

\* The products whose density has no sample: no entry of their record is
\* measured in the density's mass unit under a column of its volume unit.
ZeroSampleProducts ==
    {row.product : row \in
        {r \in ImportedRows :
            QualifyingCells(r, productDensityMap[r.product].MassUnit,
                            productDensityMap[r.product].VolumeUnit) = {}}}

\* C27: a density derived from no sample enables no conversion (v2, v3): no
\* subset the search records has a requirement, not to taste, for such a
\* product in a unit other than the unit of the stock; and no quantity of the
\* stock, neither the handler's nor the one a run of the closure on any subset
\* in any order leaves behind, is not-a-number, so that no comparison with zero
\* was ever decided by an undefined ratio.
C27_UndefinedDensityConvertsNothing ==
    \A h \in Handlers :
        (build # "v1" /\ Searched(h))
        => /\ \A i \in 1..Len(handler[h].matching) :
              \A r \in handler[h].matching[i] :
              \A k \in DOMAIN recipes[r] :
                 (/\ ~IsToTaste(build, recipes[r][k])
                  /\ recipes[r][k].Name \in ZeroSampleProducts
                  /\ recipes[r][k].Name \in DOMAIN handler[h].stockAtSearch)
                 => recipes[r][k].Measurement.Unit
                    = handler[h].stockAtSearch[recipes[r][k].Name].Measurement.Unit
           /\ \A k \in DOMAIN handler[h].AvailableProducts :
                 ~IsNaN(handler[h].AvailableProducts[k].Measurement.Quantity)
           /\ ZeroSampleProducts # {}
              => \A S \in SUBSET (DOMAIN recipes) :
                 \A ord \in IngredientOrders(S, recipes) :
                    LET run == EvaluateRecipeNameSubset(build, recipes,
                                   handler[h].stockAtSearch, ord, productDensityMap,
                                   handler[h].NumberOfServings)
                    IN  \A k \in DOMAIN run.rem :
                           ~IsNaN(RemainingMeasurement(run, k).Quantity)

\* oil has a record without a measurement, so a density {NaN, "", ""}; the
\* stock holds it in gram, the dressing asks for a cup of it.
C27_Witness ==
    \E h \in Handlers :
        /\ build = "v3" /\ fixture.name = "D" /\ Answered(h)
        /\ "oil" \in ZeroSampleProducts
        /\ IsNaN(productDensityMap["oil"].Quantity)
        /\ handler[h].stockAtSearch = ("oil" :> MkProduct("oil", 500, "g"))
        /\ recipes["dressing"]["oil"] = MkProduct("oil", 1, "cup")
        /\ handler[h].NumberOfServings = 1
        /\ handler[h].result = << >>

\* The list GetMatchingRecipeNameSets records when the power set, the recipes
\* of a subset and the ingredients of a recipe are iterated in one fixed order.
RECURSIVE MatchingInFixedOrder(_, _, _, _, _, _)
MatchingInFixedOrder(b, t, availableProducts, pending, matching, numberOfServings) ==
    IF pending = {} THEN matching
    ELSE LET S == CHOOSE x \in pending : TRUE
             ord == CHOOSE o \in IngredientOrders(S, t) : TRUE
             run == EvaluateRecipeNameSubset(b, t, availableProducts, ord,
                                             productDensityMap, numberOfServings)
         IN  MatchingInFixedOrder(b, t, run.avail, pending \ {S},
                                  IF RecordsSubset(run.ok, S) THEN Append(matching, S)
                                  ELSE matching,
                                  numberOfServings)

ResultInFixedOrder(b, t, stock, powerSet, numberOfServings) ==
    Range(MaximalOnly(MatchingInFixedOrder(b, t, stock, powerSet, << >>,
                                           numberOfServings)))

NonNegativeRequirements(t) ==
    \A r \in DOMAIN t : \A k \in DOMAIN t[r] : t[r][k].Measurement.Quantity >= 0

\* C28: for servings >= 1 and requirements that are not negative, the set of
\* recipe-name sets GetMatchingRecipeNameSets (v3) returns for a catalog, a
\* density table and a normalized stock is the same in whatever order the power
\* set, the recipes of a subset and the ingredients of a recipe are iterated: it
\* is the set the search returns in one fixed order.
C28_ResultIsOrderIndependent ==
    \A h \in Handlers :
        (/\ build = "v3" /\ Answered(h)
         /\ handler[h].NumberOfServings >= 1
         /\ NonNegativeRequirements(recipes))
        => Range(handler[h].result)
           = ResultInFixedOrder(build, recipes, handler[h].stockAtSearch,
                                recipeNamePowerSet, handler[h].NumberOfServings)

\* Every entry of m with ConvertUnit applied once, under the name it then has.
ConvertedOnce(m, ctx) == [k \in DOMAIN m |-> ConvertUnit([m[k] EXCEPT !.Name = k], ctx)]

\* No two entries of m are given the same name.
DistinctNames(m, ctx) ==
    \A k1, k2 \in DOMAIN m :
        ConvertedOnce(m, ctx)[k1].Name = ConvertedOnce(m, ctx)[k2].Name => k1 = k2

NormalizedOnce(m, ctx) ==
    [n \in {ConvertedOnce(m, ctx)[k].Name : k \in DOMAIN m} |->
        ConvertedOnce(m, ctx)[CHOOSE k \in DOMAIN m : ConvertedOnce(m, ctx)[k].Name = n]]

\* The stock of the request of handler h as the handler receives it.
PayloadMap(h) ==
    [k \in DOMAIN handler[h].payload |-> [Name |-> k, Measurement |-> handler[h].payload[k]]]

\* C29: every requirement of the catalog is normalized exactly once at load and
\* every stock entry of a request exactly once: the catalog the server serves
\* from and the stock the search starts from hold, for every entry of the file
\* or of the request, that entry with ConvertUnit applied once, under its
\* canonical name, also when the entry was renamed and inserted again while the
\* map was iterated.
C29_NormalizedExactlyOnce ==
    /\ phase = "serving"
       => \A r \in DOMAIN fixture.rawRecipes :
             DistinctNames(fixture.rawRecipes[r], fixture.ctx)
             => recipesAtLoad[r] = NormalizedOnce(fixture.rawRecipes[r], fixture.ctx)
    /\ \A h \in Handlers :
          (Searched(h) /\ DistinctNames(PayloadMap(h), fixture.ctx))
          => handler[h].stockAtSearch = NormalizedOnce(PayloadMap(h), fixture.ctx)

\* The keys of m whose entry, converted once, has the name n.
KeysNamed(m, ctx, n) == {k \in DOMAIN m : ConvertedOnce(m, ctx)[k].Name = n}

\* What C30 says of the map normalized, which the loop made of the map m.
CollisionsKeepOne(m, normalized, ctx) ==
    /\ DOMAIN normalized = {ConvertedOnce(m, ctx)[k].Name : k \in DOMAIN m}
    /\ \A n \in DOMAIN normalized :
          Cardinality(KeysNamed(m, ctx, n)) > 1
          => /\ normalized[n].Name = n
             /\ \E k \in KeysNamed(m, ctx, n) :
                   normalized[n].Measurement = ConvertedOnce(m, ctx)[k].Measurement
             /\ normalized[n].Measurement.Quantity
                # SumOver([k \in KeysNamed(m, ctx, n) |->
                              ConvertedOnce(m, ctx)[k].Measurement.Quantity],
                          KeysNamed(m, ctx, n))

\* C30: when two entries of a request's stock, or two ingredients of a recipe,
\* have the same canonical name, the normalized map has one entry under that
\* name, with the measurement of one of the two; their quantities are not added
\* and no entry stays under another of their names.
C30_CollidingEntriesKeepOne ==
    /\ phase = "serving"
       => \A r \in DOMAIN fixture.rawRecipes :
             CollisionsKeepOne(fixture.rawRecipes[r], recipesAtLoad[r], fixture.ctx)
    /\ \A h \in Handlers :
          Searched(h)
          => CollisionsKeepOne(PayloadMap(h), handler[h].stockAtSearch, fixture.ctx)

\* Both the recipe and a request with two names of butter have been
\* normalized; the request with two aliases can end with either quantity.
C30_Witness ==
    \E h \in Handlers :
        /\ build = "v3" /\ fixture.name = "K" /\ Answered(h)
        /\ recipesAtLoad["pastry"] = ("butter" :> MkProduct("butter", 240, "g"))
        /\ handler[h].payload = (("salted butter" :> MkMeasurement(1, "cup"))
                                 @@ ("unsalted butter" :> MkMeasurement(2, "cup")))
        /\ handler[h].stockAtSearch = ("butter" :> MkProduct("butter", 240, "g"))

C30_WitnessOtherOrder ==
    \E h \in Handlers :
        /\ build = "v3" /\ fixture.name = "K" /\ Answered(h)
        /\ handler[h].payload = (("salted butter" :> MkMeasurement(1, "cup"))
                                 @@ ("unsalted butter" :> MkMeasurement(2, "cup")))
        /\ handler[h].stockAtSearch = ("butter" :> MkProduct("butter", 480, "g"))

\* The same properties for the revisions that copy the stock by value: they
\* return the maximal feasible sets and are monotone.
FlatBuildReturnsMaximalFeasibleSets ==
    \A h \in Handlers :
        (build = "v2" /\ Answered(h) /\ handler[h].NumberOfServings >= 1)
        => Range(handler[h].result)
           = MaximalSets(FeasibleSets(build, recipes, handler[h].stockAtSearch,
                                      handler[h].NumberOfServings))

FlatBuildSubsetMonotonicity ==
    \A h \in Handlers :
        (build # "v3" /\ Answered(h))
        => \A S \in Range(handler[h].matching) :
              \A T \in SUBSET S : T # {} => T \in Range(handler[h].matching)

FlatBuildStockSnapshotUntouched ==
    \A h \in Handlers :
        (build # "v3" /\ Searched(h))
        => handler[h].AvailableProducts = handler[h].stockAtSearch

FlatBuildRecordedIffJointlyFeasible ==
    \A h \in Handlers :
        (build = "v2" /\ Searched(h) /\ handler[h].NumberOfServings >= 1)
        => \A S \in (SUBSET (DOMAIN recipes)) \ (handler[h].pending \cup {{}}) :
              S \in Range(handler[h].matching)
              <=> JointlyFeasible(build, recipes, handler[h].stockAtSearch, S,
                                  productDensityMap, handler[h].NumberOfServings)

PointOfUseConsumesQuantityTimesServings ==
    \A h \in Handlers :
        (build # "v1" /\ handler[h].pc = "search" /\ handler[h].NumberOfServings >= 1)
        => \A rk \in RequirementsInStock(h) :
              LET ingredient == recipes[rk[1]][rk[2]]
                  stock == handler[h].stockAtSearch
              IN  ingredient.Measurement.Unit = stock[ingredient.Name].Measurement.Unit
                  => ConsumedBy(build, stock, ingredient, productDensityMap,
                                handler[h].NumberOfServings)
                     = recipesAtLoad[rk[1]][rk[2]].Measurement.Quantity
                       * handler[h].NumberOfServings

FlatBuildResultIsOrderIndependent ==
    \A h \in Handlers :
        (/\ build = "v2" /\ Answered(h)
         /\ handler[h].NumberOfServings >= 1
         /\ NonNegativeRequirements(recipes))
        => Range(handler[h].result)
           = ResultInFixedOrder(build, recipes, handler[h].stockAtSearch,
                                recipeNamePowerSet, handler[h].NumberOfServings)

====
